---- MODULE Spec2Model ----
(***************************************************************************)
(* A model of the sequence-delta engine of DeltaInc.rs: Region, VecDelta   *)
(* (push_raw / transform), vec::Delta (transform of a Vec), and the LCS    *)
(* based diff of slices (longest_common_subsequence / extract_delta); of   *)
(* the incremental Tokenisation of lex.rs with the CharTokeniser of        *)
(* tests/lexer.rs; of transform_into of lib.rs; of the comparisons of      *)
(* Region; and of Point as Diffable and Incremental<Sum> (tests/point.rs). *)
(*                                                                         *)
(* Indices are kept 0-based as in the Rust source; a Vec or slice is a     *)
(* TLA+ sequence and position k of the source is element k + 1 here.       *)
(* Option<usize> is modelled as a sequence of length at most one:          *)
(* None is << >> and Some(v) is << v >>.                                   *)
(* Ranges handed to push_raw / replace are well formed (start <= end).     *)
(***************************************************************************)
EXTENDS Integers, Sequences, FiniteSets, TLC

VARIABLES
    pc,        \* position of the running program
    kind,      \* which delta type the run exercises
    regions,   \* VecDelta.regions : Vec<(Region,Region)>
    data,      \* VecDelta.data    : Vec<T>
    rewrites,  \* vec::Delta.rewrites : Vec<Rewrite<T>>
    vec,       \* the Vec being transformed
    ti,        \* loop index of transform
    pushed,    \* arguments of the push_raw / and_replace calls that returned
    call,      \* arguments of the operation entered last
    lhs,       \* diff: self
    rhs,       \* diff: other
    mapping,   \* diff: result of longest_common_subsequence
    a_start,   \* extract_delta cursors (after)
    a_pos,
    b_start,   \* extract_delta cursors (before)
    b_pos,
    items,     \* Tokenisation.items  : Vec<T::Input>
    starts,    \* Tokenisation.starts : Vec<bool>
    index,     \* TokenIterator.index
    tokens,    \* the tokens the iterator has yielded
    tokeniser, \* Tokenisation.tokeniser / TokenIterator.tokeniser
    result,    \* the value the last fallible operation returned
    receiver,  \* transform_into: self
    cloned,    \* transform_into: r
    arg,       \* transform_into: d
    returned,  \* transform_into: the value returned
    env        \* the local variables of a test program (tests/point.rs)

vars == << pc, kind, regions, data, rewrites, vec, ti, pushed, call,
           lhs, rhs, mapping, a_start, a_pos, b_start, b_pos,
           items, starts, index, tokens, tokeniser, result,
           receiver, cloned, arg, returned, env >>

diffVars == << lhs, rhs, mapping, a_start, a_pos, b_start, b_pos >>

lexVars == << items, starts, index, tokens, tokeniser, result >>

intoVars == << receiver, cloned, arg, returned, env >>

----------------------------------------------------------------------------
(* Bounds *)

MaxItem == 1
MaxLen == 3
MaxPos == 2
MaxPayload == 2
MaxEntries == 2
MaxVecLen == 2

Items == 0 .. MaxItem

SeqsUpTo(S, n) == UNION { [1 .. k -> S] : k \in 0 .. n }

Ranges == { r \in [start : 0 .. MaxPos, end : 0 .. MaxPos] : r.start <= r.end }

\* VecDelta<T>, vec::Delta<T> and Vec<T>::splice never inspect an element
\* (T : Clone), so the elements handed to the delta API are labels that tell
\* where each one comes from: element i of the payload of the k-th rewrite
\* is 10 * k + i, element i of the Vec to transform is i.
Payload(k, n) == [i \in 1 .. n |-> 10 * k + i]

PayloadsOf(k) == { Payload(k, n) : n \in 0 .. MaxPayload }

Vecs == { [i \in 1 .. n |-> i] : n \in 0 .. MaxVecLen }

----------------------------------------------------------------------------
(* Option<usize> *)

None == << >>

Some(v) == << v >>

IsSome(o) == Len(o) = 1

Unwrap(o) == o[1]

----------------------------------------------------------------------------
(* region.rs *)

Region(offset, length) == [offset |-> offset, length |-> length]

as_range(r) == [start |-> r.offset, end |-> r.offset + r.length]

RegionFrom(range) == Region(range.start, range.end - range.start)

ltOffsetOnly(a, b) == a.offset <= b.offset

lt(a, b) == (a.offset + a.length) <= b.offset

gtOffsetOnly(a, b) == b.offset <= a.offset

gt(a, b) == (b.offset + b.length) <= a.offset

\* "#[derive(PartialEq,Debug)]": equality of both fields
eq(a, b) == a.offset = b.offset /\ a.length = b.length

----------------------------------------------------------------------------
(* Vec and slice primitives of the standard library, as the code uses them *)

\* &s[range] : in bounds iff start <= end <= len
SliceOk(s, range) == range.start <= range.end /\ range.end <= Len(s)

SliceToEnd(s, range) == SubSeq(s, range.start + 1, Len(s))

Slice(s, range) == SubSeq(s, range.start + 1, range.end)

SpliceOkOffByOne(v, range) ==
    range.start <= range.end /\ range.start <= Len(v) /\ range.end <= Len(v) + 1

SpliceOkStartOnly(v, range) == range.start <= Len(v)

\* Vec::splice(range, items) panics unless start <= end <= len
SpliceOk(v, range) == range.start <= range.end /\ range.end <= Len(v)

SpliceKeepsOld(v, range, replace_with) ==
    SubSeq(v, 1, range.start) \o replace_with \o SubSeq(v, range.start + 1, Len(v))

Splice(v, range, replace_with) ==
    SubSeq(v, 1, range.start) \o replace_with \o SubSeq(v, range.end + 1, Len(v))

----------------------------------------------------------------------------
(* diff/vec_delta.rs *)

VecDeltaNew == [regions |-> << >>, data |-> << >>]

\* the assertion of push_raw
PushRawAssert(rs, region) ==
    LET n == Len(rs) IN n = 0 \/ lt(rs[n][1], region)

\* the entry push_raw records for a payload appended at data_start
PushRawEntryNoStart(region, data_start, payload) ==
    << region, Region(0, Len(payload)) >>

PushRawEntry(region, data_start, payload) ==
    << region, Region(data_start, Len(payload)) >>

\* VecDelta::len
VecDeltaLen(rs) == Len(rs)

\* VecDelta::is_empty
VecDeltaIsEmpty(rs) == rs = << >>

push_raw_overwrite(rs, d, range, payload) ==
    LET region == RegionFrom(range)
        data_start == Len(d)
    IN  IF PushRawAssert(rs, region)
        THEN [ok |-> TRUE,
              regions |-> Append(rs, PushRawEntry(region, data_start, payload)),
              data |-> payload]
        ELSE [ok |-> FALSE, regions |-> rs, data |-> d]

\* VecDelta::push_raw on the delta (rs, d): the assertion, then the copy of
\* the payload onto the arena and the new entry; ok is FALSE when it panics
push_raw(rs, d, range, payload) ==
    LET region == RegionFrom(range)
        data_start == Len(d)
    IN  IF PushRawAssert(rs, region)
        THEN [ok |-> TRUE,
              regions |-> Append(rs, PushRawEntry(region, data_start, payload)),
              data |-> d \o payload]
        ELSE [ok |-> FALSE, regions |-> rs, data |-> d]

\* VecDelta::get
Get(rs, d, ith) ==
    IF ith < Len(rs)
    THEN Some([region |-> rs[ith + 1][1], data |-> Slice(d, as_range(rs[ith + 1][2]))])
    ELSE None

----------------------------------------------------------------------------
(* diff/vec.rs (and vec.rs): Rewrite and Delta of a Vec *)

Rewrite(region, payload) == [region |-> region, data |-> payload]

insert(at, payload) == << Rewrite(Region(at, 0), payload) >>

replace(range, payload) == << Rewrite(RegionFrom(range), payload) >>

remove(range) == << Rewrite(RegionFrom(range), << >>) >>

NoCall == [op |-> "none", range |-> [start |-> 0, end |-> 0], data |-> << >>, vec |-> << >>]

Arg(range, payload) == [range |-> range, data |-> payload]

----------------------------------------------------------------------------
(* diff/slice.rs: longest_common_subsequence *)

\* c[k] of the flat table (0-based k)
At(c, k) == c[k + 1]

Put(c, k, v) == [c EXCEPT ![k + 1] = v]

\* the nested loops "for i in 0 .. lhs.len() { for j in 0 .. rhs.len() {..} }"
\* filling the table c, resumed at (i, j)
RECURSIVE FillTableMin(_, _, _, _, _)
FillTableMin(l, r, c, i, j) ==
    IF i >= Len(l) THEN c
    ELSE IF j >= Len(r) THEN FillTableMin(l, r, c, i + 1, 0)
    ELSE LET m == Len(l) + 1
             ip1 == i + 1
             jp1 == j + 1
             ij == ip1 + (jp1 * m)
             c_ijp1 == At(c, i + (jp1 * m))
             c_ip1j == At(c, ip1 + (j * m))
             v == IF l[i + 1] = r[j + 1]
                  THEN At(c, i + (j * m)) + 1
                  ELSE IF c_ijp1 >= c_ip1j THEN c_ip1j ELSE c_ijp1
         IN  FillTableMin(l, r, Put(c, ij, v), i, j + 1)

RECURSIVE FillTable(_, _, _, _, _)
FillTable(l, r, c, i, j) ==
    IF i >= Len(l) THEN c
    ELSE IF j >= Len(r) THEN FillTable(l, r, c, i + 1, 0)
    ELSE LET m == Len(l) + 1
             ip1 == i + 1
             jp1 == j + 1
             ij == ip1 + (jp1 * m)
             c_ijp1 == At(c, i + (jp1 * m))
             c_ip1j == At(c, ip1 + (j * m))
             v == IF l[i + 1] = r[j + 1]
                  THEN At(c, i + (j * m)) + 1
                  ELSE IF c_ijp1 >= c_ip1j THEN c_ijp1 ELSE c_ip1j
         IN  FillTable(l, r, Put(c, ij, v), i, j + 1)

RECURSIVE extract_subsequence_j(_, _, _, _)
extract_subsequence_j(c, res, i, j) ==
    LET m == Len(res) + 1 IN
    IF i > 0 /\ j > 0
    THEN LET c_ij == At(c, i + (j * m))
             c_im1j == At(c, (i - 1) + (j * m))
             c_ijm1 == At(c, i + ((j - 1) * m))
         IN  IF c_ij = c_im1j
             THEN extract_subsequence_j(c, Put(res, i - 1, None), i - 1, j)
             ELSE IF c_ij = c_ijm1
             THEN extract_subsequence_j(c, Put(res, i - 1, None), i, j - 1)
             ELSE Put(extract_subsequence_j(c, res, i - 1, j - 1), i - 1, Some(j))
    ELSE res

RECURSIVE extract_subsequence_swapped(_, _, _, _)
extract_subsequence_swapped(c, res, i, j) ==
    LET m == Len(res) + 1 IN
    IF i > 0 /\ j > 0
    THEN LET c_ij == At(c, i + (j * m))
             c_im1j == At(c, (i - 1) + (j * m))
             c_ijm1 == At(c, i + ((j - 1) * m))
         IN  IF c_ij = c_ijm1
             THEN extract_subsequence_swapped(c, Put(res, i - 1, None), i, j - 1)
             ELSE IF c_ij = c_im1j
             THEN extract_subsequence_swapped(c, Put(res, i - 1, None), i - 1, j)
             ELSE Put(extract_subsequence_swapped(c, res, i - 1, j - 1), i - 1, Some(j - 1))
    ELSE res

RECURSIVE extract_subsequence(_, _, _, _)
extract_subsequence(c, res, i, j) ==
    LET m == Len(res) + 1 IN
    IF i > 0 /\ j > 0
    THEN LET c_ij == At(c, i + (j * m))
             c_im1j == At(c, (i - 1) + (j * m))
             c_ijm1 == At(c, i + ((j - 1) * m))
         IN  IF c_ij = c_im1j
             THEN extract_subsequence(c, Put(res, i - 1, None), i - 1, j)
             ELSE IF c_ij = c_ijm1
             THEN extract_subsequence(c, Put(res, i - 1, None), i, j - 1)
             ELSE Put(extract_subsequence(c, res, i - 1, j - 1), i - 1, Some(j - 1))
    ELSE res

LcsTable(l, r) ==
    LET m == Len(l) + 1
        n == Len(r) + 1
    IN  FillTable(l, r, [k \in 1 .. (m * n) |-> 0], 0, 0)

longest_common_subsequence_mirrored(l, r) ==
    LET mp == extract_subsequence(LcsTable(l, r), [k \in 1 .. Len(l) |-> None], Len(l), Len(r))
    IN  [k \in 1 .. Len(l) |->
            IF mp[k] = None THEN None ELSE Some(Len(r) - 1 - Unwrap(mp[k]))]

longest_common_subsequence(l, r) ==
    LET m == Len(l) + 1
        n == Len(r) + 1
        c == LcsTable(l, r)
        res == [k \in 1 .. Len(l) |-> None]
    IN  extract_subsequence(c, res, m - 1, n - 1)

----------------------------------------------------------------------------
(* The delta API: a VecDelta grown by push_raw, or a vec::Delta built by    *)
(* insert / replace / remove and grown by and_replace, then applied to a   *)
(* Vec by transform.                                                       *)

\* Result<T, E>
Ok(v) == [ok |-> TRUE, val |-> v]

Err(e) == [ok |-> FALSE, val |-> e]

\* the unit value ()
Unit == "()"

NoResult == [ok |-> TRUE, val |-> "none"]

InitLexIdle ==
    /\ tokeniser = "CharTokeniser"
    /\ items = << >> /\ starts = << >>
    /\ index = 0 /\ tokens = << >> /\ result = NoResult

InitIntoIdle ==
    /\ receiver = << >> /\ cloned = << >> /\ arg = << >> /\ returned = << >>
    /\ env = << >>

InitDiffIdle ==
    /\ lhs = << >> /\ rhs = << >> /\ mapping = << >>
    /\ a_start = 0 /\ a_pos = 0 /\ b_start = 0 /\ b_pos = 0

InitVecDelta ==
    /\ kind = "VecDelta"
    /\ regions = VecDeltaNew.regions
    /\ data = VecDeltaNew.data
    /\ rewrites = << >>
    /\ pushed = << >>

InitDelta ==
    /\ kind = "Delta"
    /\ regions = << >>
    /\ data = << >>
    /\ \/ \E i \in 0 .. MaxPos, p \in PayloadsOf(1) :
             rewrites = insert(i, p) /\ pushed = << Arg([start |-> i, end |-> i], p) >>
       \/ \E r \in Ranges, p \in PayloadsOf(1) :
             rewrites = replace(r, p) /\ pushed = << Arg(r, p) >>
       \/ \E r \in Ranges :
             rewrites = remove(r) /\ pushed = << Arg(r, << >>) >>

Init ==
    /\ pc = "idle"
    /\ vec = << >>
    /\ ti = 0
    /\ call = NoCall
    /\ InitDiffIdle
    /\ InitLexIdle
    /\ InitIntoIdle
    /\ (InitVecDelta \/ InitDelta)

\* VecDelta::push_raw
PushRaw(range, payload) ==
    /\ pc = "idle"
    /\ kind = "VecDelta"
    /\ Len(regions) < MaxEntries
    /\ call' = [NoCall EXCEPT !.op = "push_raw", !.range = range, !.data = payload]
    /\ LET r == push_raw(regions, data, range, payload)
       IN  /\ regions' = r.regions
           /\ data' = r.data
           /\ pushed' = IF r.ok THEN Append(pushed, Arg(range, payload)) ELSE pushed
           /\ pc' = IF r.ok THEN "idle" ELSE "panic"
    /\ UNCHANGED << kind, rewrites, vec, ti, diffVars, lexVars, intoVars >>

\* vec::Delta::and_replace
AndReplace(range, payload) ==
    /\ pc = "idle"
    /\ kind = "Delta"
    /\ Len(rewrites) < MaxEntries
    /\ call' = [NoCall EXCEPT !.op = "and_replace", !.range = range, !.data = payload]
    /\ rewrites' = Append(rewrites, Rewrite(RegionFrom(range), payload))
    /\ pushed' = Append(pushed, Arg(range, payload))
    /\ UNCHANGED << pc, kind, regions, data, vec, ti, diffVars, lexVars, intoVars >>

\* entry of transform on a Vec supplied by the caller
TransformBegin(v) ==
    /\ pc = "idle"
    /\ pc' = "transform"
    /\ vec' = v
    /\ ti' = 0
    /\ call' = [NoCall EXCEPT !.op = "transform", !.vec = v]
    /\ UNCHANGED << kind, regions, data, rewrites, pushed, diffVars, lexVars, intoVars >>

\* one iteration of the loop of VecDelta::transform
TransformStep ==
    /\ pc = "transform"
    /\ kind = "VecDelta"
    /\ ti < Len(regions)
    /\ LET r1 == regions[ti + 1][1]
           r2 == regions[ti + 1][2]
       IN  IF SliceOk(data, as_range(r2)) /\ SpliceOk(vec, as_range(r1))
           THEN /\ vec' = Splice(vec, as_range(r1), Slice(data, as_range(r2)))
                /\ ti' = ti + 1
                /\ pc' = pc
           ELSE /\ pc' = "panic"
                /\ UNCHANGED << vec, ti >>
    /\ UNCHANGED << kind, regions, data, rewrites, pushed, call, diffVars, lexVars, intoVars >>

\* one iteration of the loop of <Vec<T> as Transform>::transform
VecTransformStep ==
    /\ pc = "transform"
    /\ kind = "Delta"
    /\ ti < Len(rewrites)
    /\ LET rw == rewrites[ti + 1]
       IN  IF SpliceOk(vec, as_range(rw.region))
           THEN /\ vec' = Splice(vec, as_range(rw.region), rw.data)
                /\ ti' = ti + 1
                /\ pc' = pc
           ELSE /\ pc' = "panic"
                /\ UNCHANGED << vec, ti >>
    /\ UNCHANGED << kind, regions, data, rewrites, pushed, call, diffVars, lexVars, intoVars >>

\* the loop of transform is exhausted and transform returns
TransformReturn ==
    /\ pc = "transform"
    /\ ti = (IF kind = "VecDelta" THEN Len(regions) ELSE Len(rewrites))
    /\ pc' = "done"
    /\ UNCHANGED << kind, regions, data, rewrites, vec, ti, pushed, call, diffVars, lexVars, intoVars >>

Next ==
    \/ \E r \in Ranges, p \in PayloadsOf(Len(regions) + 1) : PushRaw(r, p)
    \/ \E r \in Ranges, p \in PayloadsOf(Len(rewrites) + 1) : AndReplace(r, p)
    \/ \E v \in Vecs : TransformBegin(v)
    \/ TransformStep
    \/ VecTransformStep
    \/ TransformReturn

Spec == Init /\ [][Next]_vars

----------------------------------------------------------------------------
(* diff of two slices followed by the application of the delta to a copy   *)
(* of the first (diff_tests::check): longest_common_subsequence, then the  *)
(* loop of extract_delta one iteration at a time, then transform.          *)

Seqs == SeqsUpTo(Items, MaxLen)

InitDiff ==
    /\ pc = "start"
    /\ kind = "VecDelta"
    /\ lhs \in Seqs
    /\ rhs \in Seqs
    /\ mapping = << >>
    /\ a_start = 0 /\ a_pos = 0 /\ b_start = 0 /\ b_pos = 0
    /\ regions = << >> /\ data = << >> /\ rewrites = << >>
    /\ vec = << >> /\ ti = 0 /\ pushed = << >> /\ call = NoCall
    /\ InitLexIdle
    /\ InitIntoIdle

\* diff: the mapping is computed and extract_delta is entered
DiffLcs ==
    /\ pc = "start"
    /\ mapping' = longest_common_subsequence(lhs, rhs)
    /\ regions' = VecDeltaNew.regions
    /\ data' = VecDeltaNew.data
    /\ a_start' = 0 /\ a_pos' = 0 /\ b_start' = 0 /\ b_pos' = 0
    /\ pc' = "extract"
    /\ UNCHANGED << kind, rewrites, vec, ti, pushed, call, lhs, rhs, lexVars, intoVars >>

LoopCond == b_pos < Len(mapping) /\ a_pos < Len(rhs)

\* a flush of extract_delta: the slice after[from .. to], then push_raw of
\* it at range; ok is FALSE when the slice or the assertion panics
Flush(range, from, to) ==
    IF ~SliceOk(rhs, [start |-> from, end |-> to])
    THEN [ok |-> FALSE, regions |-> regions, data |-> data, pushed |-> pushed,
          call |-> [NoCall EXCEPT !.op = "slice", !.range = [start |-> from, end |-> to]]]
    ELSE LET payload == Slice(rhs, [start |-> from, end |-> to])
             r == push_raw(regions, data, range, payload)
         IN  [ok |-> r.ok, regions |-> r.regions, data |-> r.data,
              pushed |-> IF r.ok THEN Append(pushed, Arg(range, payload)) ELSE pushed,
              call |-> [NoCall EXCEPT !.op = "push_raw", !.range = range, !.data = payload]]

NeedFlushBefore == b_start < b_pos

NeedFlushAlways == b_start <= b_pos \/ a_start < a_pos

\* the test "if b_start < b_pos || a_start < a_pos" of the matching arm
NeedFlush == b_start < b_pos \/ a_start < a_pos

\* the arm "Some(_)" of the match: flush the buffers and advance
ArmMatch ==
    LET n == b_pos - b_start
        f == Flush([start |-> a_start, end |-> a_start + n], a_start, a_pos)
    IN  IF NeedFlush
        THEN /\ regions' = f.regions
             /\ data' = f.data
             /\ pushed' = f.pushed
             /\ call' = f.call
             /\ IF f.ok
                THEN /\ a_pos' = a_pos + 1
                     /\ b_pos' = b_pos + 1
                     /\ a_start' = a_pos + 1
                     /\ b_start' = b_pos + 1
                     /\ pc' = pc
                ELSE /\ pc' = "panic"
                     /\ UNCHANGED << a_start, a_pos, b_start, b_pos >>
        ELSE /\ a_pos' = a_pos + 1
             /\ b_pos' = b_pos + 1
             /\ a_start' = a_pos + 1
             /\ b_start' = b_pos + 1
             /\ UNCHANGED << pc, regions, data, pushed, call >>

\* one iteration of the while loop of extract_delta
ExtractStep ==
    /\ pc = "extract"
    /\ LoopCond
    /\ LET m == mapping[b_pos + 1]
       IN  IF m = None
           THEN /\ b_pos' = b_pos + 1
                /\ UNCHANGED << pc, regions, data, pushed, call, a_start, a_pos, b_start >>
           ELSE IF Unwrap(m) < a_pos
           THEN /\ b_pos' = b_pos + 1
                /\ UNCHANGED << pc, regions, data, pushed, call, a_start, a_pos, b_start >>
           ELSE IF Unwrap(m) > a_pos
           THEN /\ a_pos' = Unwrap(m)
                /\ UNCHANGED << pc, regions, data, pushed, call, a_start, b_start, b_pos >>
           ELSE ArmMatch
    /\ UNCHANGED << kind, rewrites, vec, ti, lhs, rhs, mapping, lexVars, intoVars >>

NeedFinalFlushBefore == b_start < Len(mapping)

\* the test "if b_start < before.len() || a_start < after.len()" after the loop
NeedFinalFlush == b_start < Len(mapping) \/ a_start < Len(rhs)

\* the loop is left: remaining buffers are flushed and the delta is returned
ExtractReturn ==
    /\ pc = "extract"
    /\ ~LoopCond
    /\ LET n == Len(mapping) - b_start
           f == Flush([start |-> a_start, end |-> a_start + n], a_start, Len(rhs))
       IN  IF NeedFinalFlush
           THEN /\ regions' = f.regions
                /\ data' = f.data
                /\ pushed' = f.pushed
                /\ call' = f.call
                /\ pc' = IF f.ok THEN "diffed" ELSE "panic"
           ELSE /\ pc' = "diffed"
                /\ UNCHANGED << regions, data, pushed, call >>
    /\ UNCHANGED << kind, rewrites, vec, ti, diffVars, lexVars, intoVars >>

\* check: the delta is applied to a copy of from
DiffApplyBegin ==
    /\ pc = "diffed"
    /\ pc' = "transform"
    /\ vec' = lhs
    /\ ti' = 0
    /\ call' = [NoCall EXCEPT !.op = "transform", !.vec = lhs]
    /\ UNCHANGED << kind, regions, data, rewrites, pushed, diffVars, lexVars, intoVars >>

NextDiff ==
    \/ DiffLcs
    \/ ExtractStep
    \/ ExtractReturn
    \/ DiffApplyBegin
    \/ TransformStep
    \/ TransformReturn

SpecDiff == InitDiff /\ [][NextDiff]_vars

\* lcs_tests::lcs_test_20, the letters 'a' .. 'e' written as 0 .. 4
Test20Lhs == << 0, 1, 1, 2, 1, 2, 3 >>

Test20Rhs == << 1, 1, 4, 2, 3, 4 >>

InitTest20 ==
    /\ pc = "start"
    /\ kind = "VecDelta"
    /\ lhs = Test20Lhs
    /\ rhs = Test20Rhs
    /\ mapping = << >>
    /\ a_start = 0 /\ a_pos = 0 /\ b_start = 0 /\ b_pos = 0
    /\ regions = << >> /\ data = << >> /\ rewrites = << >>
    /\ vec = << >> /\ ti = 0 /\ pushed = << >> /\ call = NoCall
    /\ InitLexIdle
    /\ InitIntoIdle

\* the diff over the bounded inputs and over the input of lcs_test_20
SpecLcs == (InitDiff \/ InitTest20) /\ [][NextDiff]_vars

----------------------------------------------------------------------------
(* The delta API and the diff together *)

InitAll == Init \/ InitDiff

NextAll == Next \/ NextDiff

SpecAll == InitAll /\ [][NextAll]_vars

----------------------------------------------------------------------------
(* tests/lexer.rs: CharTokeniser.  A character is one representative of    *)
(* each class the tokeniser tells apart: a brace, a digit, a letter and a  *)
(* character that starts no token.  The right brace is scanned like the    *)
(* left one, into a token of its own kind.                                 *)

Chars == {"(", "1", "a", "*"}

is_digit(c) == c \in {"1"}

is_ascii_alphabetic(c) == c \in {"a"}

is_identifier_middle(c) == is_digit(c) \/ is_ascii_alphabetic(c) \/ c = "_"

Token(k, s, e) == [kind |-> k, start |-> s, end |-> e]

\* the loop "while i < items.len() && items[i].is_digit(10) { i = i + 1; }"
RECURSIVE ScanDigits(_, _)
ScanDigits(its, i) ==
    IF i < Len(its) /\ is_digit(its[i + 1]) THEN ScanDigits(its, i + 1) ELSE i

scan_number(its, i0) == Ok(Token("Number", i0, ScanDigits(its, i0 + 1) - 1))

\* the loop "while i < items.len() && is_identifier_middle(items[i]) {..}"
RECURSIVE ScanMiddle(_, _)
ScanMiddle(its, i) ==
    IF i < Len(its) /\ is_identifier_middle(its[i + 1]) THEN ScanMiddle(its, i + 1) ELSE i

scan_identifier(its, i0) == Ok(Token("Identifier", i0, ScanMiddle(its, i0 + 1) - 1))

\* <CharTokeniser as Tokeniser>::scan
CharTokeniser_scan(its, i) ==
    IF i >= Len(its) THEN Err(Unit)
    ELSE LET c == its[i + 1]
         IN  IF c = "(" THEN Ok(Token("LeftBrace", i, i))
             ELSE IF c = ")" THEN Ok(Token("RightBrace", i, i))
             ELSE IF is_digit(c) THEN scan_number(its, i)
             ELSE IF is_ascii_alphabetic(c) \/ c = "_" THEN scan_identifier(its, i)
             ELSE Err(Unit)

\* the tokenisers a Tokenisation is instantiated with: the CharTokeniser of
\* tests/lexer.rs, and a tokeniser that makes every position a token of one
\* item and looks at no item (its span has start == index and end >= start)
Tokenisers == {"CharTokeniser", "ItemTokeniser"}

ItemTokeniser_scan(its, i) == Ok(Token("Item", i, i))

\* "self.tokeniser.scan(..)": Tokeniser::scan of the tokeniser in use
scan(its, i) ==
    IF tokeniser = "CharTokeniser" THEN CharTokeniser_scan(its, i)
    ELSE ItemTokeniser_scan(its, i)

----------------------------------------------------------------------------
(* lex.rs: Tokenisation and TokenIterator *)

MaxLexLen == 3
MaxLexPos == 2
MaxLexPayload == 1
MaxLexEntries == 2

LexSeqs == SeqsUpTo(Chars, MaxLexLen)

LexRanges == { r \in [start : 0 .. MaxLexPos, end : 0 .. MaxLexPos] : r.start <= r.end }

LexRewrites ==
    { Rewrite(RegionFrom(r), p) : r \in LexRanges, p \in SeqsUpTo(Chars, MaxLexPayload) }

RewriteMapTrue(rw) == Rewrite(rw.region, [k \in 1 .. Len(rw.data) |-> TRUE])

RewriteMapEmpty(rw) == Rewrite(rw.region, << >>)

\* Rewrite::map with the closure |i| false
RewriteMapFalse(rw) == Rewrite(rw.region, [k \in 1 .. Len(rw.data) |-> FALSE])

RECURSIVE GenerateLoopEachItem(_, _, _)
GenerateLoopEachItem(its, sts, i) ==
    IF i < Len(its)
    THEN LET marked == Put(sts, i, TRUE)
             t == scan(its, i)
         IN  IF t.ok THEN GenerateLoopEachItem(its, marked, i + 1) ELSE Err(t.val)
    ELSE Ok(sts)

RECURSIVE GenerateLoopSkipErr(_, _, _)
GenerateLoopSkipErr(its, sts, i) ==
    IF i < Len(its)
    THEN LET marked == Put(sts, i, TRUE)
             t == scan(its, i)
         IN  IF t.ok THEN GenerateLoopSkipErr(its, marked, t.val.end + 1)
             ELSE GenerateLoopSkipErr(its, marked, i + 1)
    ELSE Ok(sts)

\* the while loop of generate_starts, resumed at position i
RECURSIVE GenerateLoop(_, _, _)
GenerateLoop(its, sts, i) ==
    IF i < Len(its)
    THEN LET marked == Put(sts, i, TRUE)
             t == scan(its, i)
         IN  IF t.ok THEN GenerateLoop(its, marked, t.val.end + 1) ELSE Err(t.val)
    ELSE Ok(sts)

\* Tokenisation::generate_starts
generate_starts(its) == GenerateLoop(its, [k \in 1 .. Len(its) |-> FALSE], 0)

InitLex ==
    /\ pc = "lex_start"
    /\ kind = "Lex"
    /\ tokeniser = "CharTokeniser"
    /\ items \in LexSeqs
    /\ starts = << >>
    /\ index = 0 /\ tokens = << >> /\ result = NoResult
    /\ regions = << >> /\ data = << >> /\ rewrites = << >>
    /\ vec = << >> /\ ti = 0 /\ pushed = << >> /\ call = NoCall
    /\ InitDiffIdle
    /\ InitIntoIdle

lexFrame == << kind, regions, data, rewrites, vec, pushed, diffVars, intoVars, tokeniser >>

\* Tokenisation::new
LexNew ==
    /\ pc = "lex_start"
    /\ call' = [NoCall EXCEPT !.op = "new"]
    /\ LET g == generate_starts(items)
       IN  IF g.ok
           THEN /\ starts' = g.val
                /\ result' = Ok(Unit)
                /\ pc' = "lex_ready"
           ELSE /\ starts' = starts
                /\ result' = Err(g.val)
                /\ pc' = "lex_failed"
    /\ UNCHANGED << items, index, tokens >>
    /\ UNCHANGED << ti >>
    /\ UNCHANGED lexFrame

\* Tokenisation::validate
LexValidate ==
    /\ pc = "lex_ready"
    /\ LET g == generate_starts(items)
       IN  IF ~g.ok
           THEN /\ result' = Err(g.val)
                /\ call' = [NoCall EXCEPT !.op = "validate"]
                /\ pc' = pc
           ELSE IF g.val = starts
           THEN /\ result' = Ok(Unit)
                /\ call' = [NoCall EXCEPT !.op = "validate"]
                /\ pc' = pc
           ELSE /\ result' = result
                /\ call' = [NoCall EXCEPT !.op = "validate_assert"]
                /\ pc' = "panic"
    /\ UNCHANGED << items, starts, index, tokens >>
    /\ UNCHANGED << ti >>
    /\ UNCHANGED lexFrame

\* entry of Tokenisation::transform
LexTransformBegin ==
    /\ pc = "lex_ready"
    /\ pc' = "lex_transform"
    /\ ti' = 0
    /\ call' = [NoCall EXCEPT !.op = "transform"]
    /\ UNCHANGED << items, starts, index, tokens, result >>
    /\ UNCHANGED lexFrame

\* the rewrite rw of d, the (ti + 1)-th, takes effect: the iteration of the
\* loop of self.items.transform(d) that splices it into items, and the
\* iteration of the loop of self.starts.transform(&sd) that splices its image
\* under Rewrite::map into starts.  The two loops run one after the other
\* over the same rewrites and touch different vectors; the model draws the
\* rewrites of d one at a time and runs the matching iterations together.
LexTransformStep(rw) ==
    /\ pc = "lex_transform"
    /\ ti < MaxLexEntries
    /\ LET mapped == RewriteMapFalse(rw)
       IN  IF SpliceOk(items, as_range(rw.region)) /\ SpliceOk(starts, as_range(mapped.region))
           THEN /\ Len(items) - rw.region.length + Len(rw.data) <= MaxLexLen
                /\ items' = Splice(items, as_range(rw.region), rw.data)
                /\ starts' = Splice(starts, as_range(mapped.region), mapped.data)
                /\ ti' = ti + 1
                /\ UNCHANGED << pc, call >>
           ELSE /\ pc' = "panic"
                /\ call' = [NoCall EXCEPT !.op = "transform_splice", !.range = as_range(rw.region)]
                /\ UNCHANGED << items, starts, ti >>
    /\ UNCHANGED << index, tokens, result >>
    /\ UNCHANGED lexFrame

TransformedStartsSpliced(spliced, g) == spliced

\* "self.starts = Self::generate_starts(..)?": starts is assigned unless
\* the operator ? returns early
TransformedStarts(spliced, g) == IF g.ok THEN g.val ELSE spliced

\* the rest of Tokenisation::transform once d is exhausted: the lengths are
\* asserted equal and starts is regenerated
LexTransformFinish ==
    /\ pc = "lex_transform"
    /\ LET g == generate_starts(items)
       IN  IF Len(starts) # Len(items)
           THEN /\ pc' = "panic"
                /\ call' = [NoCall EXCEPT !.op = "transform_assert"]
                /\ UNCHANGED << starts, result >>
           ELSE /\ starts' = TransformedStarts(starts, g)
                /\ result' = IF g.ok THEN Ok(Unit) ELSE Err(g.val)
                /\ pc' = "lex_ready"
                /\ call' = call
    /\ UNCHANGED << items, index, tokens, ti >>
    /\ UNCHANGED lexFrame

\* Tokenisation::iter
LexIter ==
    /\ pc = "lex_ready"
    /\ pc' = "lex_iter"
    /\ index' = 0
    /\ tokens' = << >>
    /\ UNCHANGED << items, starts, result, call >>
    /\ UNCHANGED << ti >>
    /\ UNCHANGED lexFrame

AdvanceTwo(t) == t.end + 2

\* "self.index = t.end() + 1"
Advance(t) == t.end + 1

\* TokenIterator::next
LexIterNext ==
    /\ pc = "lex_iter"
    /\ Len(tokens) <= MaxLexLen
    /\ LET t == scan(items, index)
       IN  IF t.ok
           THEN /\ index' = Advance(t.val)
                /\ tokens' = Append(tokens, t.val)
                /\ pc' = pc
           ELSE /\ pc' = "lex_iterated"
                /\ UNCHANGED << index, tokens >>
    /\ UNCHANGED << items, starts, result, call >>
    /\ UNCHANGED << ti >>
    /\ UNCHANGED lexFrame

\* the iterator is dropped
LexIterDrop ==
    /\ pc = "lex_iterated"
    /\ pc' = "lex_ready"
    /\ index' = 0
    /\ tokens' = << >>
    /\ UNCHANGED << items, starts, result, call >>
    /\ UNCHANGED << ti >>
    /\ UNCHANGED lexFrame

NextLex ==
    \/ LexNew
    \/ LexValidate
    \/ LexTransformBegin
    \/ \E rw \in LexRewrites : LexTransformStep(rw)
    \/ LexTransformFinish
    \/ LexIter
    \/ LexIterNext
    \/ LexIterDrop

SpecLex == InitLex /\ [][NextLex]_vars

\* a Tokenisation over any of the tokenisers is constructed and iterated
InitIter ==
    /\ pc = "lex_start"
    /\ kind = "Lex"
    /\ tokeniser \in Tokenisers
    /\ items \in LexSeqs
    /\ starts = << >>
    /\ index = 0 /\ tokens = << >> /\ result = NoResult
    /\ regions = << >> /\ data = << >> /\ rewrites = << >>
    /\ vec = << >> /\ ti = 0 /\ pushed = << >> /\ call = NoCall
    /\ InitDiffIdle
    /\ InitIntoIdle

NextIter ==
    \/ LexNew
    \/ LexIter
    \/ LexIterNext
    \/ LexIterDrop

SpecIter == InitIter /\ [][NextIter]_vars

----------------------------------------------------------------------------
(* lib.rs: transform_into of Transformer and of PartialTransformer, on the *)
(* Point of tests/point.rs and on a Tokenisation.                          *)

MaxCoord == 2

Coords == -1 .. MaxCoord

Points == [x : Coords, y : Coords]

\* <Point as Transformable>::transform
PointTransform(pt, d) == [x |-> pt.x + d.x, y |-> pt.y + d.y]

\* <Vec<T> as Transformable>::transform from rewrite k (0-based) on; ok is
\* FALSE when a splice panics
RECURSIVE VecTransform(_, _, _)
VecTransform(v, rws, k) ==
    IF k >= Len(rws) THEN [ok |-> TRUE, vec |-> v]
    ELSE IF SpliceOk(v, as_range(rws[k + 1].region))
    THEN VecTransform(Splice(v, as_range(rws[k + 1].region), rws[k + 1].data), rws, k + 1)
    ELSE [ok |-> FALSE, vec |-> v]

\* "d.iter().map(|r| r.map(|i| false)).collect()" and Delta::from
DeltaMapFalse(d) == [k \in 1 .. Len(d) |-> RewriteMapFalse(d[k])]

\* <Tokenisation<T> as PartiallyTransformable>::transform on the value t
\* with the delta d: panic tells whether it aborts, result is what it
\* returns and value is what it leaves in place
TokenisationTransform(t, d) ==
    LET its == VecTransform(t.items, d, 0)
        sts == VecTransform(t.starts, DeltaMapFalse(d), 0)
        g == generate_starts(its.vec)
    IN  IF ~its.ok \/ ~sts.ok \/ Len(sts.vec) # Len(its.vec)
        THEN [panic |-> TRUE, result |-> NoResult, value |-> t]
        ELSE [panic |-> FALSE,
              result |-> IF g.ok THEN Ok(Unit) ELSE Err(g.val),
              value |-> [items |-> its.vec, starts |-> TransformedStarts(sts.vec, g)]]

\* the tokenisations Tokenisation::new builds
Tokenisations ==
    { [items |-> its, starts |-> generate_starts(its).val] :
        its \in { q \in LexSeqs : generate_starts(q).ok } }

InitInto ==
    /\ pc = "into_start"
    /\ InitDiffIdle
    /\ InitLexIdle
    /\ \/ kind = "Point" /\ receiver \in Points /\ arg \in Points
       \/ kind = "Tokenisation" /\ receiver \in Tokenisations
            /\ arg \in { << rw >> : rw \in LexRewrites }
    /\ cloned = << >>
    /\ returned = << >>
    /\ env = << >>
    /\ regions = << >> /\ data = << >> /\ rewrites = << >>
    /\ vec = << >> /\ ti = 0 /\ pushed = << >> /\ call = NoCall

intoFrame == << kind, regions, data, rewrites, vec, ti, pushed, call, diffVars, lexVars, env >>

\* "let mut r = self.clone();"
IntoClone ==
    /\ pc = "into_start"
    /\ cloned' = receiver
    /\ pc' = "into_cloned"
    /\ UNCHANGED << receiver, arg, returned >>
    /\ UNCHANGED intoFrame

\* Transformer: "r.transform(d);"
IntoTransform ==
    /\ pc = "into_cloned"
    /\ kind = "Point"
    /\ cloned' = PointTransform(cloned, arg)
    /\ pc' = "into_transformed"
    /\ UNCHANGED << receiver, arg, returned >>
    /\ UNCHANGED intoFrame

\* PartialTransformer: "r.transform(d)?;"
PartialIntoTransform ==
    /\ pc = "into_cloned"
    /\ kind = "Tokenisation"
    /\ LET t == TokenisationTransform(cloned, arg)
       IN  IF t.panic
           THEN /\ pc' = "panic"
                /\ UNCHANGED << cloned, returned >>
           ELSE IF t.result.ok
           THEN /\ cloned' = t.value
                /\ pc' = "into_transformed"
                /\ UNCHANGED returned
           ELSE /\ cloned' = t.value
                /\ returned' = Err(t.result.val)
                /\ pc' = "into_done"
    /\ UNCHANGED << receiver, arg >>
    /\ UNCHANGED intoFrame

IntoResultSelf(self_, r_) == self_

\* the value the last line hands back: "r" and "Ok(r)"
IntoResult(self_, r_) == r_

\* "r" of Transformer, "Ok(r)" of PartialTransformer
IntoReturn ==
    /\ pc = "into_transformed"
    /\ returned' = IF kind = "Point" THEN IntoResult(receiver, cloned)
                   ELSE Ok(IntoResult(receiver, cloned))
    /\ pc' = "into_done"
    /\ UNCHANGED << receiver, cloned, arg >>
    /\ UNCHANGED intoFrame

NextInto ==
    \/ IntoClone
    \/ IntoTransform
    \/ PartialIntoTransform
    \/ IntoReturn

SpecInto == InitInto /\ [][NextInto]_vars

----------------------------------------------------------------------------
(* tests/point.rs: Point as Diffable and as Incremental<Sum>               *)
(*                                                                         *)
(* i64 is modelled by the interval I64Min .. I64Max.  An addition or a     *)
(* subtraction that leaves the interval panics when the build checks       *)
(* overflow (the dev and test profiles) and wraps when it does not (the    *)
(* release profile); env.overflow_checks says which build runs.            *)

MaxInt == 3

I64Max == MaxInt

I64Min == -(MaxInt + 1)

I64 == I64Min .. I64Max

I64Points == [x : I64, y : I64]

Overflows(n) == n \notin I64

Wrap(n) == ((n - I64Min) % (I64Max - I64Min + 1)) + I64Min

OverflowsPoint(pt) == Overflows(pt.x) \/ Overflows(pt.y)

WrapPoint(pt) == [x |-> Wrap(pt.x), y |-> Wrap(pt.y)]

\* "struct Sum(i64)"
Sum(v) == [f0 |-> v]

\* <Point as Diffable>::diff
PointDiff(p, other) == [x |-> p.x - other.x, y |-> p.y - other.y]

\* <Point as Into<Sum>>::into
PointInto(p) == Sum(p.x + p.y)

PointUpdateX(p, to, delta) == delta.x

\* <Point as Incremental<Sum>>::update
PointUpdate(p, to, delta) == delta.x + delta.y

\* <Sum as Transformer>::transform_into
SumTransformInto(s, d) == Sum(s.f0 + d)

Bind(e, name, v) == (name :> v) @@ e

Overflowed == [NoCall EXCEPT !.op = "overflow"]

\* test_diff_01 starts with p1 and p2, test_incremental_02 with p1 and d1
InitPoint ==
    /\ \/ /\ pc = "diff_start" /\ kind = "PointDiff"
          /\ env \in [overflow_checks : BOOLEAN, p1 : I64Points, p2 : I64Points]
       \/ /\ pc = "inc_start" /\ kind = "PointInc"
          /\ env \in [overflow_checks : BOOLEAN, p1 : I64Points, d1 : I64Points]
    /\ receiver = << >> /\ cloned = << >> /\ arg = << >> /\ returned = << >>
    /\ regions = << >> /\ data = << >> /\ rewrites = << >>
    /\ vec = << >> /\ ti = 0 /\ pushed = << >> /\ call = NoCall
    /\ InitDiffIdle
    /\ InitLexIdle

pointFrame == << kind, regions, data, rewrites, vec, ti, pushed,
                 diffVars, lexVars, receiver, cloned, arg, returned >>

\* "let d1 = p1.diff(&p2);"
PointDiffCall ==
    /\ pc = "diff_start"
    /\ LET d == PointDiff(env.p1, env.p2)
       IN  IF env.overflow_checks /\ OverflowsPoint(d)
           THEN pc' = "panic" /\ call' = Overflowed /\ UNCHANGED env
           ELSE pc' = "diffed_point" /\ env' = Bind(env, "d1", WrapPoint(d))
                /\ UNCHANGED call
    /\ UNCHANGED pointFrame

\* "p1.transform_into(&d1)"
PointDiffApply ==
    /\ pc = "diffed_point"
    /\ LET q == PointTransform(env.p1, env.d1)
       IN  IF env.overflow_checks /\ OverflowsPoint(q)
           THEN pc' = "panic" /\ call' = Overflowed /\ UNCHANGED env
           ELSE pc' = "diff_done" /\ env' = Bind(env, "q", WrapPoint(q))
                /\ UNCHANGED call
    /\ UNCHANGED pointFrame

\* "let s1 : Sum = p1.into();"
IncInto ==
    /\ pc = "inc_start"
    /\ LET s == PointInto(env.p1)
       IN  IF env.overflow_checks /\ Overflows(s.f0)
           THEN pc' = "panic" /\ call' = Overflowed /\ UNCHANGED env
           ELSE pc' = "inc_into" /\ env' = Bind(env, "s1", Sum(Wrap(s.f0)))
                /\ UNCHANGED call
    /\ UNCHANGED pointFrame

\* "let p2 = p1.transform_into(&d1); let s2 : Sum = p2.into();"
IncScratch ==
    /\ pc = "inc_into"
    /\ LET q == PointTransform(env.p1, env.d1)
           s == PointInto(WrapPoint(q))
       IN  IF env.overflow_checks /\ (OverflowsPoint(q) \/ Overflows(s.f0))
           THEN pc' = "panic" /\ call' = Overflowed /\ UNCHANGED env
           ELSE pc' = "inc_scratch"
                /\ env' = Bind(Bind(env, "p2", WrapPoint(q)), "s2", Sum(Wrap(s.f0)))
                /\ UNCHANGED call
    /\ UNCHANGED pointFrame

\* "let d2 = p1.update(&s1,&d1); let s3 = s1.transform_into(&d2);"
IncUpdate ==
    /\ pc = "inc_scratch"
    /\ LET d == PointUpdate(env.p1, env.s1, env.d1)
           s == SumTransformInto(env.s1, Wrap(d))
       IN  IF env.overflow_checks /\ (Overflows(d) \/ Overflows(s.f0))
           THEN pc' = "panic" /\ call' = Overflowed /\ UNCHANGED env
           ELSE pc' = "inc_done"
                /\ env' = Bind(Bind(env, "d2", Wrap(d)), "s3", Sum(Wrap(s.f0)))
                /\ UNCHANGED call
    /\ UNCHANGED pointFrame

NextPoint ==
    \/ PointDiffCall
    \/ PointDiffApply
    \/ IncInto
    \/ IncScratch
    \/ IncUpdate

SpecPoint == InitPoint /\ [][NextPoint]_vars

----------------------------------------------------------------------------
(* region.rs: the comparisons of two regions                               *)

Regions == { Region(o, l) : o \in 0 .. MaxPos, l \in 0 .. MaxPos }

InitRegion ==
    /\ pc = "cmp_start" /\ kind = "Region"
    /\ env \in [a : Regions, b : Regions]
    /\ receiver = << >> /\ cloned = << >> /\ arg = << >> /\ returned = << >>
    /\ regions = << >> /\ data = << >> /\ rewrites = << >>
    /\ vec = << >> /\ ti = 0 /\ pushed = << >> /\ call = NoCall
    /\ InitDiffIdle
    /\ InitLexIdle

\* "a < b", "a > b" and "a == b" are evaluated
RegionCompare ==
    /\ pc = "cmp_start"
    /\ pc' = "cmp_done"
    /\ env' = Bind(Bind(Bind(env, "lt", lt(env.a, env.b)),
                                  "gt", gt(env.a, env.b)),
                                  "eq", eq(env.a, env.b))
    /\ UNCHANGED call
    /\ UNCHANGED pointFrame

NextRegion == RegionCompare

SpecRegion == InitRegion /\ [][NextRegion]_vars

----------------------------------------------------------------------------
(* Properties *)

\* the target region of the k-th entry (1-based k) of the delta in use
TargetRegion(k) == IF kind = "VecDelta" THEN regions[k][1] ELSE rewrites[k].region

NumEntries == IF kind = "VecDelta" THEN Len(regions) ELSE Len(rewrites)

DiffReturned == pc \in {"diffed", "transform", "done"}

\* entries i < j of a VecDelta are separated by a gap of at least one
StrictlyOrdered(rs) ==
    \A i, j \in 1 .. Len(rs) :
        i < j => rs[i][1].offset + rs[i][1].length < rs[j][1].offset

RECURSIVE SumPayload(_, _)
SumPayload(rs, k) == IF k = 0 THEN 0 ELSE rs[k][2].length + SumPayload(rs, k - 1)

\* C1: diff(a, b) completes without aborting, and the delta applied to a
\* copy of a leaves the copy equal to b.
C1_DiffApplyRoundTrip ==
    /\ pc # "panic"
    /\ pc = "done" => vec = rhs

\* C2: in every VecDelta built by push_raw calls that did not abort, the
\* target regions of entries i < j never overlap and never touch:
\* entries[i].offset + entries[i].length < entries[j].offset.
C2_DeltaOrdering ==
    kind = "VecDelta" => StrictlyOrdered(regions)

\* C3: push_raw on a non-empty delta aborts exactly when range.start lies
\* before the end of the last entry's target region, the abort leaves the
\* arena and the entry list as they were, and on an empty delta every range
\* is accepted.
C3_PushRawAborts ==
    [][ (pc = "idle" /\ call'.op = "push_raw") =>
          LET n == Len(regions)
              aborts == pc' = "panic"
          IN  /\ n > 0 =>
                   (aborts <=> call'.range.start < regions[n][1].offset + regions[n][1].length)
              /\ aborts => (regions' = regions /\ data' = data)
              /\ n = 0 => (~aborts /\ Len(regions') = 1)
              /\ ~aborts => Len(regions') = n + 1
      ]_vars

C3_Witness ==
    /\ pc = "panic"
    /\ call.op = "push_raw"
    /\ Len(regions) > 0
    /\ call.range.start > regions[Len(regions)][1].offset

\* C4: every delta returned by diff has strictly increasing target regions
\* that neither overlap nor touch.
C4_DiffSatisfiesI1 ==
    DiffReturned => StrictlyOrdered(regions)

\* C5: the payload slices partition [0, data.len()) contiguously in entry
\* order: the first starts at 0, each starts where the previous one ends,
\* and data.len() is the sum of their lengths.
C5_ArenaPartition ==
    /\ Len(regions) > 0 => regions[1][2].offset = 0
    /\ \A i \in 2 .. Len(regions) :
          regions[i][2].offset = regions[i - 1][2].offset + regions[i - 1][2].length
    /\ Len(data) = SumPayload(regions, Len(regions))

C5_Witness ==
    /\ Len(regions) = 2
    /\ regions[1][2].length > 0
    /\ regions[2][2].length > 0
    /\ pc = "idle"

\* C6: a.diff(a) is the empty delta, and applying it to a copy of a leaves
\* the copy equal to a.
C6_EmptySelfDiff ==
    lhs = rhs =>
        /\ pc # "panic"
        /\ DiffReturned => (Len(regions) = 0 /\ regions = << >>)
        /\ pc = "done" => vec = lhs

C6_Witness ==
    /\ lhs = rhs
    /\ Len(lhs) >= 2
    /\ pc = "done"

\* what replacing positions [off, off + len) of v by p gives, position by
\* position: the prefix is kept, the payload follows, the suffix is shifted
SpliceSpec(v, off, len, p) ==
    [k \in 1 .. (Len(v) - len + Len(p)) |->
        IF k <= off THEN v[k]
        ELSE IF k <= off + Len(p) THEN p[k - off]
        ELSE v[k - Len(p) + len]]

\* the left-to-right fold of SpliceSpec over the rewrites es[k ..]
RECURSIVE FoldSplice(_, _, _)
FoldSplice(v, es, k) ==
    IF k > Len(es) THEN v
    ELSE FoldSplice(SpliceSpec(v, es[k].range.start,
                               es[k].range.end - es[k].range.start, es[k].data),
                    es, k + 1)

\* C7: transform processes the rewrites strictly in stored order; each
\* rewrite (offset, length, payload), as it was handed to the delta, replaces
\* positions [offset, offset + length) of the vector left by the preceding
\* rewrites and alters nothing else; the result is the left-to-right fold of
\* splice over the rewrites.
C7_ApplySemantics ==
    /\ [][ (pc = "transform" /\ pc' = "transform") =>
             /\ ti' = ti + 1
             /\ ti < Len(pushed)
             /\ vec' = SpliceSpec(vec, pushed[ti + 1].range.start,
                                  pushed[ti + 1].range.end - pushed[ti + 1].range.start,
                                  pushed[ti + 1].data)
         ]_vars
    /\ [](pc = "done" => (ti = Len(pushed) /\ vec = FoldSplice(call.vec, pushed, 1)))

C7_Witness ==
    /\ pc = "done"
    /\ kind = "VecDelta"
    /\ Len(pushed) = 2
    /\ Len(vec) # Len(call.vec)
    /\ pushed[1].data # << >>
    /\ pushed[2].data # << >>

\* the entry transform is about to apply reaches beyond the vector
CurOutOfRange ==
    /\ ti < NumEntries
    /\ as_range(TargetRegion(ti + 1)).end > Len(vec)

\* C8 (as claimed): applying a delta whose entry region extends beyond the
\* target's current length at the point of application returns a recoverable
\* error value to the caller and does not abort.
C8_ApplyReturnsError ==
    (call.op = "transform" /\ CurOutOfRange /\ pc # "transform") => pc = "error"

\* C8 (amended): applying a delta whose entry region extends beyond the
\* target's current length at the point of application aborts (the splice
\* panics); no error value is returned.
C8_ApplyPanics ==
    /\ [][ (pc = "transform" /\ CurOutOfRange) => pc' = "panic" ]_vars
    /\ []((call.op = "transform" /\ CurOutOfRange) => pc \in {"transform", "panic"})

C8_Witness ==
    /\ pc = "panic"
    /\ call.op = "transform"
    /\ CurOutOfRange
    /\ ti = 1

SomeIndices(m) == { i \in 1 .. Len(m) : IsSome(m[i]) }

\* C9: longest_common_subsequence(lhs, rhs) has length |lhs|; its Some
\* entries are strictly increasing from left to right and lie in [0, |rhs|);
\* for an empty rhs every entry is None, for an empty lhs the result is empty.
C9_LcsBounds ==
    pc # "start" =>
        /\ Len(mapping) = Len(lhs)
        /\ \A i \in 1 .. Len(mapping) : mapping[i] = None \/ IsSome(mapping[i])
        /\ \A i, j \in SomeIndices(mapping) : i < j => Unwrap(mapping[i]) < Unwrap(mapping[j])
        /\ \A i \in SomeIndices(mapping) : 0 <= Unwrap(mapping[i]) /\ Unwrap(mapping[i]) < Len(rhs)
        /\ rhs = << >> => SomeIndices(mapping) = {}
        /\ lhs = << >> => mapping = << >>

C9_Witness ==
    /\ pc = "extract"
    /\ Cardinality(SomeIndices(mapping)) >= 2
    /\ \E i \in 1 .. Len(mapping) : mapping[i] = None
    /\ \E i \in SomeIndices(mapping) : Unwrap(mapping[i]) # i - 1

Min(S) == CHOOSE x \in S : \A y \in S : x <= y

\* the subsequence of s at the positions I, in order
RECURSIVE Pick(_, _)
Pick(s, I) == IF I = {} THEN << >> ELSE << s[Min(I)] >> \o Pick(s, I \ {Min(I)})

Subsequences(s) == { Pick(s, I) : I \in SUBSET (1 .. Len(s)) }

\* the maximum length of a common subsequence, by enumeration
MaxCommon(l, r) ==
    LET common == Subsequences(l) \cap Subsequences(r)
    IN  CHOOSE n \in 0 .. Len(l) :
            /\ \E q \in common : Len(q) = n
            /\ \A q \in common : Len(q) <= n

\* C10: every entry map[i] = Some(j) pairs equal elements, and the number
\* of Some entries is the maximum length of any common subsequence.
C10_LcsIsLongest ==
    pc # "start" =>
        /\ \A i \in SomeIndices(mapping) :
              /\ Unwrap(mapping[i]) + 1 \in 1 .. Len(rhs)
              /\ lhs[i] = rhs[Unwrap(mapping[i]) + 1]
        /\ Cardinality(SomeIndices(mapping)) = MaxCommon(lhs, rhs)

C10_Witness ==
    /\ pc = "extract"
    /\ Cardinality(SomeIndices(mapping)) = 2
    /\ Len(lhs) = 3
    /\ Len(rhs) = 3
    /\ lhs # rhs

\* the classical LCS table: c[i][j] is the length of a longest common
\* subsequence of the first i items of l and the first j items of r
RECURSIVE RefTable(_, _, _, _)
RefTable(l, r, i, j) ==
    IF i = 0 \/ j = 0 THEN 0
    ELSE IF l[i] = r[j] THEN RefTable(l, r, i - 1, j - 1) + 1
    ELSE LET up == RefTable(l, r, i - 1, j)
             left == RefTable(l, r, i, j - 1)
         IN  IF up >= left THEN up ELSE left

\* the reference walk-back from (i, j): (i-1, j) is tried first, then
\* (i, j-1), otherwise position i-1 is paired with j-1
RECURSIVE RefWalkBack(_, _, _, _, _)
RefWalkBack(l, r, map, i, j) ==
    IF i = 0 \/ j = 0 THEN map
    ELSE IF RefTable(l, r, i, j) = RefTable(l, r, i - 1, j)
    THEN RefWalkBack(l, r, [map EXCEPT ![i] = None], i - 1, j)
    ELSE IF RefTable(l, r, i, j) = RefTable(l, r, i, j - 1)
    THEN RefWalkBack(l, r, map, i, j - 1)
    ELSE RefWalkBack(l, r, [map EXCEPT ![i] = Some(j - 1)], i - 1, j - 1)

RefMapping(l, r) == RefWalkBack(l, r, [k \in 1 .. Len(l) |-> None], Len(l), Len(r))

\* C11: longest_common_subsequence returns exactly the mapping of the
\* reference walk-back from (|lhs|, |rhs|) over the classical LCS table that
\* tries (i-1, j) first, then (i, j-1), and otherwise records
\* map[i-1] = Some(j-1); on the input of lcs_test_20 it returns
\* [None, 0, 1, 3, None, None, 4].
C11_TieBreak ==
    pc # "start" =>
        /\ mapping = RefMapping(lhs, rhs)
        /\ (lhs = Test20Lhs /\ rhs = Test20Rhs) =>
              mapping = << None, Some(0), Some(1), Some(3), None, None, Some(4) >>

\* an input with two longest common subsequences, where the order of the
\* two tests decides the mapping
C11_Witness ==
    /\ pc = "extract"
    /\ lhs = << 0, 1 >>
    /\ rhs = << 1, 0 >>
    /\ mapping = << Some(1), None >>

\* C12: diff tolerates empty inputs: if exactly one of lhs, rhs is empty the
\* delta has exactly one rewrite, whose target region is [0, |lhs|) and whose
\* payload is the whole of rhs; if both are empty the delta is empty; neither
\* case aborts.
C12_EmptyInputs ==
    (lhs = << >> \/ rhs = << >>) =>
        /\ pc # "panic"
        /\ DiffReturned =>
              IF lhs = << >> /\ rhs = << >>
              THEN regions = << >> /\ data = << >>
              ELSE /\ Len(regions) = 1
                   /\ as_range(regions[1][1]) = [start |-> 0, end |-> Len(lhs)]
                   /\ Get(regions, data, 0) = Some([region |-> Region(0, Len(lhs)), data |-> rhs])
                   /\ Get(regions, data, 1) = None

C12_Witness ==
    /\ pc = "diffed"
    /\ lhs = << >>
    /\ Len(rhs) >= 2
    /\ Len(regions) = 1

----------------------------------------------------------------------------
(* Properties of the tokenisation *)

\* a Tokenisation value exists and no operation on it is running
LexAtRest == pc \in {"lex_ready", "lex_iter", "lex_iterated"}

\* the positions the left-to-right scan from p visits: p, then the position
\* after the end of the token found there, and so on while scan succeeds
RECURSIVE TokenStarts(_, _)
TokenStarts(its, p) ==
    IF p >= Len(its) THEN {}
    ELSE {p} \cup (IF scan(its, p).ok THEN TokenStarts(its, scan(its, p).val.end + 1) ELSE {})

ScanFails(its) == \E p \in TokenStarts(its, 0) : ~scan(its, p).ok

\* the error of the position at which the scan fails
ScanError(its) == LET p == CHOOSE q \in TokenStarts(its, 0) : ~scan(its, q).ok
                  IN  scan(its, p).val

\* the bitmap of the token starts
StartsBitmap(its) == [k \in 1 .. Len(its) |-> (k - 1) \in TokenStarts(its, 0)]

\* the tokens of the left-to-right scan from p
RECURSIVE TokensFrom(_, _)
TokensFrom(its, p) ==
    IF p < Len(its) /\ scan(its, p).ok
    THEN << scan(its, p).val >> \o TokensFrom(its, scan(its, p).val.end + 1)
    ELSE << >>

\* the step is the return of transform
TransformReturns == pc = "lex_transform" /\ pc' = "lex_ready"

\* C13: after a successful Tokenisation::new and after every transform that
\* returned Ok, starts is the bitmap regenerated from the current items
\* (starts[i] is true iff position i begins a token of the left-to-right
\* scan), so validate returns Ok and its assertion never fires.
C13_StartsConsistent ==
    /\ []((LexAtRest /\ result.ok) =>
            /\ starts = StartsBitmap(items)
            /\ generate_starts(items) = Ok(starts))
    /\ []~(pc = "panic" /\ call.op = "validate_assert")
    /\ [][ (pc = "lex_ready" /\ result.ok /\ call'.op \in {"validate", "validate_assert"}
              /\ pc' \in {"lex_ready", "panic"})
             => (pc' = "lex_ready" /\ result' = Ok(Unit) /\ starts' = starts)
         ]_vars

C13_Witness ==
    /\ pc = "lex_ready"
    /\ call.op = "validate"
    /\ result = Ok(Unit)
    /\ ti = 2
    /\ starts = << TRUE, TRUE, FALSE >>

C15_IncrementalIsRebuild ==
    /\ [][ (TransformReturns /\ result'.ok) =>
             /\ items' = items
             /\ generate_starts(items').ok
             /\ starts' = generate_starts(items').val
         ]_vars
    /\ []((pc = "lex_iterated" /\ result.ok /\ call.op = "transform") =>
            tokens = TokensFrom(items, 0))
    /\ []((LexAtRest /\ result.ok /\ call.op = "transform") =>
            starts = generate_starts(items).val)

\* test_transform_01, with both letters written "a"
C15_Witness ==
    /\ pc = "lex_iterated"
    /\ call.op = "transform"
    /\ result = Ok(Unit)
    /\ ti = 1
    /\ items = << "1", "a", "a" >>
    /\ starts = << TRUE, TRUE, FALSE >>
    /\ tokens = << Token("Number", 0, 0), Token("Identifier", 1, 2) >>

\* the step applies one rewrite of the delta: items and starts are spliced
\* at the same region [off, off + len), items with some payload of n items
\* and starts with n times false
RewriteApplied ==
    \E off \in 0 .. Len(items), len \in 0 .. Len(items) :
        LET n == Len(items') - Len(items) + len
        IN  /\ off + len <= Len(items)
            /\ n >= 0
            /\ items' = SpliceSpec(items, off, len, SubSeq(items', off + 1, off + n))
            /\ starts' = SpliceSpec(starts, off, len, [k \in 1 .. n |-> FALSE])

\* C16: transform returns Err(e) exactly when the left-to-right rescan of
\* the post-delta items reaches a token start at which scan returns Err(e),
\* and e is propagated unchanged; the delta is then not rolled back and
\* starts is left as the spliced bitmap, not regenerated, of length |items|.
C16_TransformError ==
    /\ [][ TransformReturns =>
             /\ ~result'.ok <=> ScanFails(items)
             /\ ~result'.ok => result' = Err(ScanError(items))
             /\ items' = items
             /\ ~result'.ok => (starts' = starts /\ Len(starts') = Len(items'))
         ]_vars
    /\ [][ (pc = "lex_transform" /\ pc' = "lex_transform") => (ti' = ti + 1 /\ RewriteApplied) ]_vars

\* test_transform_02: insert(0, ['*']) on ['a','a']
C16_Witness ==
    /\ pc = "lex_ready"
    /\ call.op = "transform"
    /\ result = Err(Unit)
    /\ ti = 1
    /\ items = << "*", "a", "a" >>
    /\ starts = << FALSE, TRUE, FALSE >>

\* C17: |starts| == |items| holds whenever a Tokenisation is at rest, after
\* construction and after every transform, returned Ok or Err, of a delta
\* whose rewrites are in range, deltas of several rewrites included: the
\* bitmap delta splices a payload of the same length at the same region, and
\* the assertion of transform never fires.
C17_SizeAligned ==
    /\ [](LexAtRest => Len(starts) = Len(items))
    /\ []~(pc = "panic" /\ call.op = "transform_assert")
    /\ [][ pc = "lex_transform" =>
             /\ Len(starts) = Len(items) => Len(starts') = Len(items')
             /\ pc' = "panic" =>
                  (call'.op = "transform_splice" /\ call'.range.end > Len(items))
         ]_vars

C17_Witness ==
    /\ pc = "lex_ready"
    /\ call.op = "transform"
    /\ ~result.ok
    /\ ti = 2
    /\ Len(items) = 3
    /\ Len(starts) = 3

\* C18: Tokenisation::new returns Err(e) exactly when the scan from position
\* 0, advancing to end + 1 after each token, reaches a position p < |items|
\* at which scan returns Err(e), and Ok otherwise; for CharTokeniser that is
\* when some item starts no token.  On failure no Tokenisation exists.
C18_NewError ==
    /\ [][ pc = "lex_start" =>
             /\ pc' = (IF ScanFails(items) THEN "lex_failed" ELSE "lex_ready")
             /\ result' = (IF ScanFails(items) THEN Err(ScanError(items)) ELSE Ok(Unit))
             /\ ScanFails(items) <=> (\E k \in 1 .. Len(items) : items[k] = "*")
             /\ ScanFails(items) => starts' = << >>
         ]_vars
    /\ [][ pc # "lex_failed" ]_vars

\* test_lexer_02
C18_Witness ==
    /\ pc = "lex_failed"
    /\ call.op = "new"
    /\ result = Err(Unit)
    /\ items = << "a", "a", "*" >>
    /\ starts = << >>

\* C19: a new delta has len() = 0 and is_empty(); len() is the number of
\* push_raw calls that did not abort; for 0 <= i < len(), get(i) returns the
\* region and the payload exactly as passed to the (i+1)-th push_raw, no
\* later push_raw changes that, and for i >= len() get(i) returns None
\* without aborting.
C19_Accessors ==
    /\ []((kind = "VecDelta" /\ pc \in {"idle", "panic"}) =>
            /\ VecDeltaLen(regions) = Len(pushed)
            /\ VecDeltaIsEmpty(regions) <=> (Len(pushed) = 0)
            /\ \A i \in 0 .. (Len(pushed) - 1) :
                  /\ SliceOk(data, as_range(regions[i + 1][2]))
                  /\ Get(regions, data, i) =
                        Some([region |-> RegionFrom(pushed[i + 1].range),
                              data |-> pushed[i + 1].data])
            /\ \A i \in Len(pushed) .. (MaxEntries + 1) : Get(regions, data, i) = None)
    /\ [][ (kind = "VecDelta" /\ pc = "idle") =>
             \A i \in 0 .. (VecDeltaLen(regions) - 1) :
                Get(regions', data', i) = Get(regions, data, i)
         ]_vars

C19_Witness ==
    /\ kind = "VecDelta"
    /\ pc = "idle"
    /\ call.op = "push_raw"
    /\ VecDeltaLen(regions) = 2
    /\ Get(regions, data, 0) = Some([region |-> Region(0, 1), data |-> Payload(1, 2)])
    /\ Get(regions, data, 1) = Some([region |-> Region(2, 0), data |-> Payload(2, 1)])
    /\ Get(regions, data, 2) = None

\* what transforming a copy of the receiver in place gives
InPlaceOnCopy ==
    IF kind = "Point"
    THEN [x |-> receiver.x + arg.x, y |-> receiver.y + arg.y]
    ELSE LET t == TokenisationTransform(receiver, arg)
         IN  IF t.result.ok THEN Ok(t.value) ELSE Err(t.result.val)

\* C20: transform_into(d) never modifies its receiver and returns exactly
\* the value obtained by cloning the receiver and transforming the clone in
\* place with d; the fallible form returns Err(e) exactly when the in-place
\* transform of the clone returns Err(e), the receiver again unchanged.
C20_TransformInto ==
    /\ [][ (pc \in {"into_start", "into_cloned", "into_transformed"}) =>
             (receiver' = receiver /\ arg' = arg) ]_vars
    /\ [](pc = "into_done" => returned = InPlaceOnCopy)
    /\ []((pc = "into_done" /\ kind = "Tokenisation") =>
            (~returned.ok <=> ~TokenisationTransform(receiver, arg).result.ok))

\* test_transformer_01
C20_Witness ==
    /\ pc = "into_done"
    /\ kind = "Point"
    /\ receiver = [x |-> 1, y |-> 2]
    /\ arg = [x |-> 1, y |-> 1]
    /\ returned = [x |-> 2, y |-> 3]

\* C21: for every implementation of diff, self.diff(other) is a delta that
\* takes self to other; for points p1 and p2, once d1 = p1.diff(&p2) and
\* p1.transform_into(&d1) have returned, the point obtained equals p2.
C21_DiffOrientation ==
    (kind = "PointDiff" /\ pc = "diff_done") => env.q = env.p2

\* C25: incremental update commutes with conversion: once test_incremental_02
\* has computed both sides for a point p1 and a delta d1, the Sum converted
\* from the transformed point (s2) equals the Sum obtained by transforming
\* into(p1) with the delta p1.update(into(p1), d1) (s3), and that delta is
\* d1.x + d1.y in i64 arithmetic.
C25_IncrementalCommutes ==
    (kind = "PointInc" /\ pc = "inc_done") =>
        /\ env.s2 = env.s3
        /\ env.d2 = Wrap(env.d1.x + env.d1.y)
        /\ env.s2 = Sum(Wrap(env.p2.x + env.p2.y))

C25_Witness ==
    /\ kind = "PointInc" /\ pc = "inc_done"
    /\ env.d1.x # 0 /\ env.d1.y # 0
    /\ env.s3 # env.s1

\* the half-open intervals of a and b share a position
Overlap(a, b) ==
    \E i \in 0 .. (a.offset + a.length + b.offset + b.length) :
        /\ a.offset <= i /\ i < a.offset + a.length
        /\ b.offset <= i /\ i < b.offset + b.length

\* C22: a < b holds iff a.offset + a.length <= b.offset, a > b holds iff
\* b.offset + b.length <= a.offset, a == b holds iff offsets and lengths
\* are equal, and two distinct regions that overlap are incomparable: none
\* of a < b, a > b and a == b holds.
C22_RegionOrdering ==
    (kind = "Region" /\ pc = "cmp_done") =>
        LET a == env.a
            b == env.b
        IN  /\ env.lt <=> (a.offset + a.length <= b.offset)
            /\ env.gt <=> (b.offset + b.length <= a.offset)
            /\ env.eq <=> (a.offset = b.offset /\ a.length = b.length)
            /\ (a # b /\ Overlap(a, b)) => (~env.lt /\ ~env.gt /\ ~env.eq)

C22_Witness ==
    /\ kind = "Region" /\ pc = "cmp_done"
    /\ env.a # env.b /\ Overlap(env.a, env.b)
    /\ env.a.offset < env.b.offset

\* C29: for all regions a and b, zero-length ones included, at most one of
\* a < b, a > b and a == b holds, and a < a is false.
C29_MutuallyExclusive ==
    (kind = "Region" /\ pc = "cmp_done") =>
        /\ ~(env.lt /\ env.gt)
        /\ ~(env.lt /\ env.eq)
        /\ ~(env.gt /\ env.eq)
        /\ (env.a = env.b) => ~env.lt

\* the length of the vector after the first j rewrites have been applied to
\* a vector of length n
RECURSIVE LenAfter(_, _, _)
LenAfter(n, es, j) ==
    IF j = 0 THEN n
    ELSE LenAfter(n, es, j - 1)
             - (es[j].range.end - es[j].range.start) + Len(es[j].data)

\* C23: when entry k (0-based) of a delta is out of range for the target at
\* the point of application, transform stops there: entries 0 .. k-1 were in
\* range and their rewrites are in the target, entry k and the later entries
\* have changed nothing.
C23_PartialFailure ==
    call.op = "transform" =>
        /\ \A j \in 1 .. ti :
               pushed[j].range.end <= LenAfter(Len(call.vec), pushed, j - 1)
        /\ pc = "panic" =>
               /\ ti < Len(pushed)
               /\ pushed[ti + 1].range.end > Len(vec)
               /\ vec = FoldSplice(call.vec, SubSeq(pushed, 1, ti), 1)

C23_Witness ==
    /\ pc = "panic"
    /\ call.op = "transform"
    /\ ti = 1
    /\ pushed[1].data # << >>
    /\ vec # call.vec

\* C26: diff never aborts: every push_raw call of extract_delta (the flush at
\* an anchor and the final flush) passes push_raw's ordering assertion, and
\* every slice after[a_start .. a_pos] it takes is in bounds.
C26_DiffNeverAborts ==
    ~(pc = "panic" /\ call.op \in {"push_raw", "slice"})

\* C30: in extract_delta, with the mapping of longest_common_subsequence(lhs,
\* rhs) and after = rhs, whenever mapping[b_pos] = Some(v) is inspected,
\* v >= a_pos (the arm "Some(v) if v < a_pos" is not taken); every completed
\* iteration increases b_pos or a_pos and decreases neither, and the cursors
\* stay within |lhs| and |rhs|, so there are at most |lhs| + |rhs| iterations.
C30_DeadArm ==
    /\ []((pc = "extract" /\ LoopCond /\ IsSome(mapping[b_pos + 1]))
             => Unwrap(mapping[b_pos + 1]) >= a_pos)
    /\ []((pc = "extract") => (b_pos <= Len(lhs) /\ a_pos <= Len(rhs)))
    /\ [][ (pc = "extract" /\ pc' = "extract") =>
             /\ b_pos' >= b_pos /\ a_pos' >= a_pos
             /\ (b_pos' > b_pos \/ a_pos' > a_pos) ]_vars

C30_Witness ==
    /\ pc = "extract"
    /\ LoopCond
    /\ IsSome(mapping[b_pos + 1])
    /\ Unwrap(mapping[b_pos + 1]) > a_pos
    /\ b_pos > 0 /\ a_pos > 0

\* the matched pairs (q, p) of a mapping, mp[q] = Some(p), from position k
\* (1-based) on, in order
RECURSIVE MatchedPairs(_, _)
MatchedPairs(mp, k) ==
    IF k > Len(mp) THEN << >>
    ELSE IF IsSome(mp[k])
         THEN << [q |-> k - 1, p |-> Unwrap(mp[k])] >> \o MatchedPairs(mp, k + 1)
         ELSE MatchedPairs(mp, k + 1)

\* the matched pairs between the virtual pairs (-1, -1) and (|a|, |b|)
Anchors(mp, nb) ==
    << [q |-> -1, p |-> -1] >> \o MatchedPairs(mp, 1) \o << [q |-> Len(mp), p |-> nb] >>

\* the gaps between consecutive anchors that hold an unmatched element of a
\* or of b
Gaps(mp, nb) ==
    LET an == Anchors(mp, nb)
    IN  { g \in 1 .. (Len(an) - 1) :
            an[g + 1].q - an[g].q > 1 \/ an[g + 1].p - an[g].p > 1 }

\* C24: the delta diff(a, b) returns has one rewrite per gap between
\* consecutive matched pairs of the LCS mapping (the gap before the first
\* match and the gap after the last included) that holds an unmatched
\* element of a or of b.
C24_RewriteCount ==
    DiffReturned => VecDeltaLen(regions) = Cardinality(Gaps(mapping, Len(rhs)))

C24_Witness ==
    /\ pc = "diffed"
    /\ VecDeltaLen(regions) = 2
    /\ Cardinality(Gaps(mapping, Len(rhs))) = 2
    /\ \E k \in 1 .. Len(mapping) : IsSome(mapping[k])

\* the gaps of Gaps(mp, nb) in increasing order
GapSeq(mp, nb) ==
    LET all == [g \in 1 .. (Len(Anchors(mp, nb)) - 1) |-> g]
        IsGap(g) == g \in Gaps(mp, nb)
    IN  SelectSeq(all, IsGap)

\* C27: while diff(a, b) is applied to a copy of a, the region of the entry
\* about to be applied lies within the current vector, and once the k-th
\* entry has been applied the vector is b[0 .. p) followed by a[q ..), where
\* (q, p) is the matched pair that follows the entry's gap, or (|a|, |b|)
\* after the last gap; the stored offsets are used as they are.
C27_ApplyInvariant ==
    /\ ~(pc = "panic" /\ call.op = "transform")
    /\ (pc \in {"transform", "done"} /\ call.op = "transform") =>
         /\ ti < VecDeltaLen(regions) =>
                as_range(regions[ti + 1][1]).end <= Len(vec)
         /\ ti = 0 => vec = lhs
         /\ ti > 0 =>
                LET f == Anchors(mapping, Len(rhs))[GapSeq(mapping, Len(rhs))[ti] + 1]
                IN  vec = SubSeq(rhs, 1, f.p) \o SubSeq(lhs, f.q + 1, Len(lhs))

C27_Witness ==
    /\ pc = "transform"
    /\ ti = 1
    /\ VecDeltaLen(regions) = 2
    /\ vec # lhs /\ vec # rhs
    /\ regions[2][1].offset > 0

\* the number of true entries of a bitmap
TrueCount(sts) == Cardinality({ k \in 1 .. Len(sts) : sts[k] })

\* C28: for every tokeniser that satisfies the interface contract and every
\* successfully constructed Tokenisation, the iteration is finite: the
\* iterator never yields more spans than starts has true entries, every span
\* starts at a true entry, and when it returns None it has yielded exactly
\* one span per true entry.
C28_IterationTerminates ==
    /\ pc \in {"lex_iter", "lex_iterated"} =>
         /\ Len(tokens) <= TrueCount(starts)
         /\ \A k \in 1 .. Len(tokens) :
                tokens[k].start < Len(starts) /\ starts[tokens[k].start + 1]
    /\ pc = "lex_iterated" => Len(tokens) = TrueCount(starts)
====
